---- MODULE Spec2Model ----
(***************************************************************************)
(* SummarAI backend: the chunked summarizer of                              *)
(* backend/app/services/summarization_service.py and the handlers of the   *)
(* API in front of it: registration and verification (routers/auth.py),   *)
(* documents (routers/documents.py) and summaries (routers/summaries.py).  *)
(*                                                                         *)
(* A text is a sequence of characters; a character is its code point.      *)
(* Code points 9, 10 and 32 are whitespace, every other one is part of a   *)
(* word.  NoText stands for a text that is None.                           *)
(***************************************************************************)
EXTENDS Integers, Sequences, FiniteSets, TLC

\* Python's None where a str is expected: no text holds the code point -1
NoText == <<-1>>

(* ------------------------------ bounds --------------------------------- *)

\* the longest input text splits into MaxChunks chunks
MaxChunks == 6
\* longest text and largest chunk size tried on chunk_text alone
MaxTextLen == 6
MaxChunkSize == 3
\* rows the documents and the summaries table take
MaxDocuments == 2
MaxSummaries == 1
\* the files of the upload directory
MaxFiles == 2
\* the days that pass
MaxDays == 2

(* ------------------------- program constants --------------------------- *)

\* summarize_long_text: `if word_count <= 1000`
DirectLimit == 1000
\* summarize_long_text: chunk_text(text, max_chunk_size=800)
ChunkSize == 800
\* summarize_long_text: generate_summary(chunk, max_length=200, min_length=80)
ChunkMaxLength == 200
ChunkMinLength == 80
\* SummaryCreate: max_length ge=100 le=1024, min_length ge=50 le=400
MaxLengthGe == 100
MaxLengthLe == 1024
MinLengthGe == 50
MinLengthLe == 400
\* UserCreate: password min_length=8
MinPasswordLength == 8
\* settings.MAX_FILE_SIZE, in bytes
MaxFileSize == 10485760
\* create_verification_token: expires_in = timedelta(days=1), in minutes
VerificationTokenExpireMinutes == 1440
\* settings.ACCESS_TOKEN_EXPIRE_MINUTES
ACCESS_TOKEN_EXPIRE_MINUTES == 30

(* ------------------------------- text ---------------------------------- *)

Whitespace == {9, 10, 32}
IsSpace(c) == c \in Whitespace

\* a sequence value in tuple form
Tup(f) == SubSeq(f, 1, Len(f))

\* str.split(): the maximal runs of non-whitespace characters, in order
split(s) ==
    LET n == Len(s)
        idx == Tup([i \in 1..n |-> i])
        IsStart(i) == ~IsSpace(s[i]) /\ (i = 1 \/ IsSpace(s[i - 1]))
        IsEnd(i) == ~IsSpace(s[i]) /\ (i = n \/ IsSpace(s[i + 1]))
        starts == SelectSeq(idx, IsStart)
        ends == SelectSeq(idx, IsEnd)
    IN Tup([k \in 1..Len(starts) |-> SubSeq(s, starts[k], ends[k])])

RECURSIVE JoinRange(_, _, _, _)
JoinRange(sep, parts, lo, hi) ==
    IF lo > hi THEN <<>>
    ELSE IF lo = hi THEN parts[lo]
    ELSE LET mid == (lo + hi) \div 2
         IN JoinRange(sep, parts, lo, mid) \o sep \o JoinRange(sep, parts, mid + 1, hi)

\* sep.join(parts)
join(sep, parts) == JoinRange(sep, parts, 1, Len(parts))

Min(a, b) == IF a < b THEN a ELSE b

\* a slice that takes one word too many
SliceInclusive(words, i, j) == SubSeq(words, i + 1, Min(j + 1, Len(words)))

\* words[i:j] of Python, 0-based and clipped to the list
Slice(words, i, j) == SubSeq(words, i + 1, Min(j, Len(words)))

\* a range whose stride is one short of the chunk size
RangeStartsOverlap(n, step) ==
    Tup([k \in 1..((n + step - 1) \div step) |-> (k - 1) * (step - 1)])

\* the values of range(0, n, step)
RangeStarts(n, step) == Tup([k \in 1..((n + step - 1) \div step) |-> (k - 1) * step])

chunk_text(text, max_chunk_size) ==
    LET words == split(text)
        starts == RangeStarts(Len(words), max_chunk_size)
    IN Tup([k \in 1..Len(starts) |->
              join(<<32>>, Slice(words, starts[k], starts[k] + max_chunk_size))])

(* ------------------------------ state ---------------------------------- *)

VARIABLES
    pc,                 \* "idle", "generating", "done", "raised", "rejected",
                        \* "answered", "chunked"
    entry,              \* "none", "api" (POST /summaries/generate) or "direct"
    text,               \* summarize_long_text: text (None: the document has none)
    max_length,         \* summarize_long_text: max_length
    min_length,         \* summarize_long_text: min_length
    word_count,         \* summarize_long_text: word_count
    max_chunk_size,     \* chunk_text: max_chunk_size of the last call, 0 if none
    chunks,             \* summarize_long_text: chunks
    chunk_summaries,    \* summarize_long_text: chunk_summaries
    combined_summary,   \* summarize_long_text: combined_summary
    stage,              \* call site of the running generate_summary call
    inflight,           \* the generate_summary calls in progress, innermost last
    calls,              \* every generate_summary call of the request, in order
    returns,            \* what each generate_summary call returned, in order
    result,             \* the dictionaries summarize_long_text returned (none or one)
    error,              \* the exceptions the request ended with (none or one)
    http_status,        \* status of the HTTP response, 0 if none
    gen,                \* how the pretrained model answers during this request
    model,              \* _model is not None
    tokenizer,          \* _tokenizer is not None
    loads,              \* times load_model has loaded the tokenizer and the model
    users,              \* rows of the table users
    documents,          \* rows of the table documents
    summaries,          \* rows of the table summaries
    files,              \* paths of the files in settings.UPLOAD_DIR
    request,            \* the API request being answered
    response,           \* body of the HTTP response (none or one record)
    now                 \* datetime.utcnow(), in minutes

vars == <<pc, entry, text, max_length, min_length, word_count, max_chunk_size,
          chunks, chunk_summaries, combined_summary, stage, inflight, calls,
          returns, result, error, http_status, gen, model, tokenizer, loads,
          users, documents, summaries, files, request, response, now>>

requestVars == <<entry, text, max_length, min_length, gen>>
localVars == <<word_count, max_chunk_size, chunks, chunk_summaries, combined_summary>>
cacheVars == <<model, tokenizer, loads>>
dbVars == <<users, documents, summaries, files>>
httpVars == <<request, response>>

(* --------------------------- the environment --------------------------- *)

\* the n words of an input text: word k is unlike every other word
Words(n, long) ==
    Tup([k \in 1..n |-> IF long THEN <<64, 100 + k>> ELSE <<100 + k>>])

\* an input text of n words: "plain" has single spaces between the words,
\* "messy" has two-character words, runs of whitespace between them and
\* whitespace at both ends
MkText(n, style) ==
    IF style = "plain" THEN join(<<32>>, Words(n, FALSE))
    ELSE <<10>> \o join(<<32, 10>>, Words(n, TRUE)) \o <<32, 9>>

\* answers of the pretrained model (tokenizer, model.generate, decode):
\* at most max_length tokens, so at most max_length words
GenBehaviours == {"lead", "empty", "padded"}

Generate(g, t, mx, mn) ==
    LET words == split(t)
    IN CASE g = "lead" -> join(<<32>>, SubSeq(words, 1, Min(mx, Len(words))))
         [] g = "empty" -> <<>>
         [] OTHER -> <<32>> \o join(<<10>>, SubSeq(words, 1, Min(1, Len(words)))) \o <<10, 32>>

\* word counts of the texts handed to summarize_long_text
LongWordCounts ==
    {DirectLimit + 1, 2 * ChunkSize, 2 * ChunkSize + 1, (MaxChunks - 1) * ChunkSize + 1}

DirectInputs ==
    ({0, 1, DirectLimit, DirectLimit + 1} \X {"plain", "messy"})
        \cup (LongWordCounts \X {"plain"})

DirectTexts == {MkText(in[1], in[2]) : in \in DirectInputs}

\* (max_length, min_length) of a request
LengthPairs == {<<400, 150>>, <<100, 50>>, <<100, 400>>, <<50, 100>>}
\* (max_length, min_length) in the body of POST /summaries/generate
ApiLengthPairs == {<<100, 50>>, <<100, 30>>}

\* content of the text files that are uploaded
ApiTexts == {MkText(0, "plain"), MkText(1, "messy")}

\* the uploaded files: name, size in bytes, the text in the file; the
\* names are a.txt, a.TXT, a.exe and .txt
UploadFiles ==
    {[name |-> <<97, 46, 116, 120, 116>>, size |-> Len(t), content |-> t] :
        t \in ApiTexts}
       \cup {[name |-> <<97, 46, 84, 88, 84>>, size |-> MaxFileSize,
              content |-> MkText(0, "plain")],
             [name |-> <<97, 46, 101, 120, 101>>, size |-> 1,
              content |-> MkText(1, "messy")],
             [name |-> <<97, 46, 101, 120, 101>>, size |-> MaxFileSize + 1,
              content |-> MkText(1, "messy")],
             [name |-> <<46, 116, 120, 116>>, size |-> 1,
              content |-> MkText(1, "messy")],
             [name |-> <<97, 46, 116, 120, 116>>, size |-> MaxFileSize + 1,
              content |-> MkText(1, "messy")]}

\* how far create_document gets: save_upload_file raises before or after it
\* has opened the file, extract_text_from_file raises, db.commit raises
UploadOutcomes == {"ok", "save_fails", "write_fails", "extract_fails", "commit_fails"}

\* email addresses and passwords of the registration requests
Emails == {"a@example.com", "b@example.com"}
Passwords == {Tup([i \in 1..n |-> 112]) : n \in {MinPasswordLength - 1, MinPasswordLength}}
\* the passwords of the users that log in
LoginPasswords == Passwords \cup {Tup([i \in 1..(MinPasswordLength + 1) |-> 112])}

\* ids a request can name
UserIds == 1..Cardinality(Emails)
DocumentIds == 1..MaxDocuments
SummaryIds == 1..MaxSummaries

(* ------------------------ decisions of the code ------------------------ *)

\* SummaryCreate: the Field constraints of max_length and min_length
SummaryCreate(mx, mn) ==
    /\ mx >= MaxLengthGe /\ mx <= MaxLengthLe
    /\ mn >= MinLengthGe /\ mn <= MinLengthLe

\* create_summary: `if not document.extracted_text` does not hold
HasExtractedText(t) == t # NoText /\ t # <<>>

\* the threshold test with < for <=
IsShortStrict(wc) == wc < DirectLimit

\* summarize_long_text: `if word_count <= 1000`
IsShort(wc) == wc <= DirectLimit

Call(t, mx, mn) == [text |-> t, max_length |-> mx, min_length |-> mn]

\* summarize_long_text: generate_summary(text, max_length, min_length)
DirectCall(t, mx, mn) == Call(t, mx, mn)

\* a chunk call that passes the caller's lengths on
ChunkCallCallerLengths(chunk, mx, mn) == Call(chunk, mx, mn)

\* summarize_long_text: generate_summary(chunk, max_length=200, min_length=80)
ChunkCall(chunk, mx, mn) == Call(chunk, ChunkMaxLength, ChunkMinLength)

\* a combination without the separator
CombineNoSeparator(sums) == join(<<>>, sums)

\* summarize_long_text: combined_summary = " ".join(chunk_summaries)
Combine(sums) == join(<<32>>, sums)

\* summarize_long_text: generate_summary(combined_summary, max_length, min_length)
FinalCall(combined, mx, mn) == Call(combined, mx, mn)

\* a loop that stops one chunk early
HasNextChunkSkipsLast(cs, done) == done + 1 < Len(cs)

\* summarize_long_text: the for loop has a next chunk after `done` summaries
HasNextChunk(cs, done) == done < Len(cs)

\* a reduction that starts over on a combination of more than 1000 words
ReduceRecursive(cs, sums, mx, mn) ==
    IF IsShort(Len(split(Combine(sums))))
    THEN [stage |-> "final", chunks |-> cs, chunk_summaries |-> sums,
          combined |-> Combine(sums), call |-> FinalCall(Combine(sums), mx, mn)]
    ELSE [stage |-> "chunk", chunks |-> chunk_text(Combine(sums), ChunkSize),
          chunk_summaries |-> <<>>, combined |-> Combine(sums),
          call |-> ChunkCall(chunk_text(Combine(sums), ChunkSize)[1], mx, mn)]

\* summarize_long_text, after the for loop: the chunk summaries are combined
\* and generate_summary is called on the combination
Reduce(cs, sums, mx, mn) ==
    [stage |-> "final", chunks |-> cs, chunk_summaries |-> sums,
     combined |-> Combine(sums), call |-> FinalCall(Combine(sums), mx, mn)]

RECURSIVE Pow2Mod125(_)
\* 2^k modulo 125
Pow2Mod125(k) == IF k = 0 THEN 1 ELSE (2 * Pow2Mod125(k - 1)) % 125

RECURSIVE Log2Floor(_, _)
\* the largest j with b * 2^j <= a, for a >= b > 0
Log2Floor(a, b) == IF 2 * b <= a THEN 1 + Log2Floor(a, 2 * b) ELSE 0

RECURSIVE Log2Ceil(_, _)
\* the smallest i with a * 2^i >= b, for a > 0
Log2Ceil(a, b) == IF a >= b THEN 0 ELSE 1 + Log2Ceil(2 * a, b)

\* the double nearest to m / 2000 lies above m / 2000: the 53-bit
\* significand of m / 125 is rounded up
DoubleRoundsUp(m) ==
    LET k == IF m >= 125 THEN 52 - Log2Floor(m, 125) ELSE 52 + Log2Ceil(m, 125)
    IN ((m % 125) * Pow2Mod125(k)) % 125 >= 63

\* round(a / b, 3) of Python for integers a >= 0 and b > 0, in thousandths:
\* the thousandth nearest to the double a / b; half way between two
\* thousandths the double decides, and the even one if the double is exact
Round3(a, b) ==
    LET q == (1000 * a) \div b
        r == (1000 * a) % b
        m == 2 * q + 1
    IN IF 2 * r < b THEN q
       ELSE IF 2 * r > b THEN q + 1
       ELSE IF m % 125 = 0 THEN (IF q % 2 = 0 THEN q ELSE q + 1)
       ELSE IF DoubleRoundsUp(m) THEN q + 1 ELSE q

\* ZeroDivisionError where a number is expected
ZeroDivision == -1

\* a ratio computed without the test of the divisor
CompressionRatioUnguarded(summary_words, original_words) ==
    IF original_words = 0 THEN ZeroDivision
    ELSE Round3(summary_words, original_words)

\* generate_summary: round(summary_words / original_words
\* if original_words > 0 else 0, 3), in thousandths
CompressionRatio(summary_words, original_words) ==
    IF original_words > 0 THEN Round3(summary_words, original_words) ELSE 0

\* generate_summary: the dictionary returned for input t and decoded summary
\* s; generation_time, a reading of the clock, is left out
SummaryDict(t, s) ==
    [summary_text |-> s,
     original_length |-> Len(split(t)),
     summary_length |-> Len(split(s)),
     compression_ratio |-> CompressionRatio(Len(split(s)), Len(split(t)))]

\* no request
NoRequest == [op |-> "none", user |-> 0, id |-> 0, email |-> ""]
Request(o, u, i, e) == [op |-> o, user |-> u, id |-> i, email |-> e]

\* the column verification_token is NULL
NoToken == [sub |-> "", type |-> "none", exp |-> 0]

\* the column last_login is NULL
NoTime == -1

\* create_verification_token: a signed token with the email as subject that
\* create_access_token stamps with the expiry, one day from now
create_verification_token(email) ==
    [sub |-> email, type |-> "email_verification",
     exp |-> now + VerificationTokenExpireMinutes]

\* hash_password: a bcrypt hash that verify_password matches with p only
hash_password(p) == [scheme |-> "bcrypt", plain |-> p]

\* verify_password: the plain password is the one that was hashed
verify_password(plain_password, hashed_password) ==
    hashed_password = hash_password(plain_password)

\* an exception with a detail
HTTPExceptionDetail(code, detail) ==
    [kind |-> "HTTPException", status |-> code, detail |-> detail]

\* UserCreate: the Field constraint of password
UserCreate(email, password) == Len(password) >= MinPasswordLength

\* the primary key of a new row: one more than the largest in the table
NextId(table) ==
    IF table = {} THEN 1
    ELSE (CHOOSE r \in table : \A o \in table : o.id <= r.id).id + 1

\* save_upload_file: a file name no file of the directory has
NextPath == CHOOSE n \in 1..(Cardinality(files) + 1) : n \notin files

\* a lookup that finds no user
get_user_by_email_none(email) == {}

\* get_user_by_email: the users with this email
get_user_by_email(email) == {u \in users : u.email = email}

\* a check that leaves out is_active
authenticate_user_any_status(email, password) ==
    IF get_user_by_email(email) = {}
      THEN {HTTPExceptionDetail(401, "Incorrect email or password")}
    ELSE IF \E x \in get_user_by_email(email) :
                ~verify_password(password, x.hashed_password)
      THEN {HTTPExceptionDetail(401, "Incorrect email or password")}
    ELSE {}

\* authenticate_user: the exception it raises, none when the user may log in
authenticate_user(email, password) ==
    IF get_user_by_email(email) = {}
      THEN {HTTPExceptionDetail(401, "Incorrect email or password")}
    ELSE IF \E x \in get_user_by_email(email) :
                ~verify_password(password, x.hashed_password)
      THEN {HTTPExceptionDetail(401, "Incorrect email or password")}
    ELSE IF \E x \in get_user_by_email(email) : ~x.is_active
      THEN {HTTPExceptionDetail(403, "Account is inactive")}
    ELSE {}

\* the dependency of the document and summary routes: the bearer token of
\* the request names an active user
get_current_active_user(u) == \E x \in users : x.id = u /\ x.is_active

\* settings.ALLOWED_EXTENSIONS: pdf, docx, txt
ALLOWED_EXTENSIONS == {<<112, 100, 102>>, <<100, 111, 99, 120>>, <<116, 120, 116>>}

\* Path(filename).suffix of a name without directories: from the last dot
\* on, empty when the last dot starts or ends the name
suffix(filename) ==
    LET dots == {i \in 1..Len(filename) : filename[i] = 46}
        last == IF dots = {} THEN 0 ELSE CHOOSE k \in dots : \A j \in dots : j <= k
    IN IF 1 < last /\ last < Len(filename)
         THEN SubSeq(filename, last, Len(filename))
       ELSE <<>>

\* str.lower
lower(s) == Tup([i \in 1..Len(s) |-> IF s[i] \in 65..90 THEN s[i] + 32 ELSE s[i]])

\* str.replace('.', '')
replace_dot(s) == SelectSeq(s, LAMBDA c : c # 46)

\* a comparison that keeps the case of the name
validate_file_extension_case_sensitive(filename, allowed_extensions) ==
    replace_dot(suffix(filename)) \in allowed_extensions

\* validate_file_extension
validate_file_extension(filename, allowed_extensions) ==
    replace_dot(lower(suffix(filename)))
        \in {replace_dot(lower(ext)) : ext \in allowed_extensions}

\* a limit that the size has to stay under
validate_file_size_strict(file_size, max_size_mb) ==
    file_size < max_size_mb * 1024 * 1024

\* validate_file_size
validate_file_size(file_size, max_size_mb) ==
    file_size <= max_size_mb * 1024 * 1024

\* validate_upload_file: status of the error, 0 if the file is valid
validate_upload_file(file) ==
    IF ~validate_file_extension(file.name, ALLOWED_EXTENSIONS) THEN 400
    ELSE IF ~validate_file_size(file.size, MaxFileSize \div (1024 * 1024)) THEN 413
    ELSE 0

\* delete_file: the files of the directory after the call; os.remove
\* removes the file or raises, and delete_file swallows what it raises
delete_file(file_path, removed) ==
    IF file_path \in files /\ removed THEN files \ {file_path} ELSE files

\* a check that leaves out the owner
get_document_by_id_any_owner(document_id, user_id) ==
    IF ~\E d \in documents : d.id = document_id THEN 404 ELSE 0

\* get_document_by_id: status of the error, 0 if the document is returned
get_document_by_id(document_id, user_id) ==
    IF ~\E d \in documents : d.id = document_id THEN 404
    ELSE IF \E d \in documents : d.id = document_id /\ d.owner_id # user_id THEN 403
    ELSE 0

\* get_summary, delete_summary: status of the error, 0 if there is none
summary_by_id(summary_id, user_id) ==
    IF ~\E x \in summaries : x.id = summary_id THEN 404
    ELSE IF \E x \in summaries : x.id = summary_id /\ x.owner_id # user_id THEN 403
    ELSE 0

\* checks that look at the text before the owner
create_summary_checks_text_first(document_id, user_id) ==
    IF ~\E d \in documents : d.id = document_id THEN 404
    ELSE IF \E d \in documents : d.id = document_id /\ ~HasExtractedText(d.extracted_text)
      THEN 400
    ELSE IF \E d \in documents : d.id = document_id /\ d.owner_id # user_id THEN 403
    ELSE 0

\* create_summary: the checks before summarize_long_text, status of the
\* HTTPException raised, 0 if none
create_summary_checks(document_id, user_id) ==
    IF ~\E d \in documents : d.id = document_id THEN 404
    ELSE IF \E d \in documents : d.id = document_id /\ d.owner_id # user_id THEN 403
    ELSE IF \E d \in documents : d.id = document_id /\ ~HasExtractedText(d.extracted_text)
      THEN 400
    ELSE 0

\* a test that loads on every call
NeedsLoadAlways(m, t) == TRUE

\* load_model: `if _model is None or _tokenizer is None`
NeedsLoad(m, t) == ~m \/ ~t

HTTPException(code) == [kind |-> "HTTPException", status |-> code]
\* the generate_summary call that is running, by its place in the request
FailedCall ==
    [stage |-> IF stage = "final" THEN "final-reduction" ELSE stage,
     index |-> IF stage = "chunk" THEN Len(calls) ELSE 0]

\* an exception that tells which call failed
GenerationFailure == [kind |-> "GenerationFailure", status |-> 0, origin |-> FailedCall]

\* what tokenizing, model.generate or decode raises
GenerationError == [kind |-> "Exception", status |-> 0]

(* ------------------------------ actions -------------------------------- *)

Resting == {"done", "raised", "rejected", "answered"}

Init ==
    /\ pc = "idle" /\ entry = "none"
    /\ text = NoText /\ max_length = 0 /\ min_length = 0
    /\ word_count = 0 /\ max_chunk_size = 0
    /\ chunks = <<>> /\ chunk_summaries = <<>> /\ combined_summary = NoText
    /\ stage = "none" /\ inflight = <<>> /\ calls = <<>> /\ returns = <<>>
    /\ result = {} /\ error = {} /\ http_status = 0
    /\ gen = "none" /\ model = FALSE /\ tokenizer = FALSE /\ loads = 0
    /\ users = {} /\ documents = {} /\ summaries = {} /\ files = {}
    /\ request = NoRequest /\ response = {}
    /\ now = 0

\* an entry that starts the calls of all chunks together
EnterParallel(t, mx, mn) ==
    LET wc == Len(split(t))
        cs == IF IsShort(wc) THEN <<>> ELSE chunk_text(t, ChunkSize)
        all == IF IsShort(wc) THEN <<DirectCall(t, mx, mn)>>
               ELSE Tup([k \in 1..Len(cs) |-> ChunkCall(cs[k], mx, mn)])
    IN /\ text' = t /\ max_length' = mx /\ min_length' = mn
       /\ word_count' = wc
       /\ max_chunk_size' = IF IsShort(wc) THEN 0 ELSE ChunkSize
       /\ chunks' = cs
       /\ chunk_summaries' = <<>>
       /\ combined_summary' = NoText
       /\ stage' = IF IsShort(wc) THEN "direct" ELSE "chunk"
       /\ inflight' = all
       /\ calls' = all
       /\ returns' = <<>>
       /\ result' = {} /\ error' = {}
       /\ pc' = "generating"

\* summarize_long_text, from its first line to its first generate_summary call
Enter(t, mx, mn) ==
    LET wc == Len(split(t))
        cs == IF IsShort(wc) THEN <<>> ELSE chunk_text(t, ChunkSize)
        r == Reduce(cs, <<>>, mx, mn)
        looping == ~IsShort(wc) /\ HasNextChunk(cs, 0)
        reducing == ~IsShort(wc) /\ ~HasNextChunk(cs, 0)
        first == IF IsShort(wc) THEN DirectCall(t, mx, mn)
                 ELSE IF looping THEN ChunkCall(cs[1], mx, mn)
                 ELSE r.call
    IN /\ text' = t /\ max_length' = mx /\ min_length' = mn
       /\ word_count' = wc
       /\ max_chunk_size' = IF IsShort(wc) THEN 0 ELSE ChunkSize
       /\ chunks' = IF reducing THEN r.chunks ELSE cs
       /\ chunk_summaries' = <<>>
       /\ combined_summary' = IF reducing THEN r.combined ELSE NoText
       /\ stage' = IF IsShort(wc) THEN "direct"
                   ELSE IF looping THEN "chunk" ELSE r.stage
       /\ inflight' = <<first>>
       /\ calls' = <<first>>
       /\ returns' = <<>>
       /\ result' = {} /\ error' = {}
       /\ pc' = "generating"

\* a request that ends before summarize_long_text is entered
Reject(t, mx, mn, exc, code) ==
    /\ text' = t /\ max_length' = mx /\ min_length' = mn
    /\ word_count' = 0 /\ max_chunk_size' = 0
    /\ chunks' = <<>> /\ chunk_summaries' = <<>> /\ combined_summary' = NoText
    /\ stage' = "none" /\ inflight' = <<>> /\ calls' = <<>> /\ returns' = <<>>
    /\ result' = {} /\ error' = {exc}
    /\ http_status' = code
    /\ gen' = "none"
    /\ pc' = "rejected"

\* a caller invokes summarize_long_text(text, max_length, min_length)
summarize_long_text(t, mx, mn, g) ==
    /\ pc = "idle"
    /\ entry' = "direct" /\ http_status' = 0 /\ gen' = g
    /\ Enter(t, mx, mn)
    /\ UNCHANGED <<cacheVars, dbVars, httpVars, now>>

\* POST /summaries/generate: SummaryCreate validates the body, the router
\* calls create_summary and turns every exception into a 500 response;
\* create_summary checks the document and calls summarize_long_text
create_summary(u, d, mx, mn, g) ==
    /\ pc = "idle"
    /\ get_current_active_user(u)
    /\ NextId(summaries) <= MaxSummaries
    /\ entry' = "api"
    /\ request' = Request("generate", u, d, "")
    /\ response' = {}
    /\ UNCHANGED <<cacheVars, dbVars, now>>
    /\ LET t == IF \E x \in documents : x.id = d
                THEN (CHOOSE x \in documents : x.id = d).extracted_text
                ELSE NoText
           check == create_summary_checks(d, u)
       IN IF ~SummaryCreate(mx, mn)
            THEN Reject(t, mx, mn, [kind |-> "RequestValidationError", status |-> 422], 422)
          ELSE IF check # 0 THEN Reject(t, mx, mn, HTTPException(check), 500)
          ELSE /\ gen' = g /\ http_status' = 0
               /\ Enter(t, mx, mn)

\* create_summary: the row made of the dictionary summarize_long_text
\* returned; generation_time is left out
Summary(document_id, owner_id, res, mx, mn) ==
    [id |-> NextId(summaries),
     document_id |-> document_id, owner_id |-> owner_id,
     summary_text |-> res.summary_text,
     word_count |-> res.summary_length,
     compression_ratio |-> res.compression_ratio,
     max_length |-> mx, min_length |-> mn]

\* generate_summary returns: the model is loaded and has produced a summary;
\* when it is the last call of a request of the API, create_summary stores
\* the summary and the router answers 201
GenReturn ==
    /\ pc = "generating"
    /\ LET c == inflight[Len(inflight)]
           s == Generate(gen, c.text, c.max_length, c.min_length)
           res == SummaryDict(c.text, s)
           sums == Append(chunk_summaries, s)
       IN /\ returns' = Append(returns, res)
          /\ IF stage = "chunk"
             THEN /\ IF HasNextChunk(chunks, Len(sums))
                     THEN LET nxt == ChunkCall(chunks[Len(sums) + 1], max_length, min_length)
                          IN /\ chunk_summaries' = sums
                             /\ inflight' = <<nxt>>
                             /\ calls' = Append(calls, nxt)
                             /\ UNCHANGED <<stage, chunks, combined_summary>>
                     ELSE LET r == Reduce(chunks, sums, max_length, min_length)
                          IN /\ stage' = r.stage
                             /\ chunks' = r.chunks
                             /\ chunk_summaries' = r.chunk_summaries
                             /\ combined_summary' = r.combined
                             /\ inflight' = <<r.call>>
                             /\ calls' = Append(calls, r.call)
                  /\ UNCHANGED <<pc, result, http_status>>
             ELSE /\ pc' = "done"
                  /\ result' = {res}
                  /\ inflight' = <<>>
                  /\ http_status' = IF entry = "api" THEN 201 ELSE 0
                  /\ UNCHANGED <<stage, chunks, chunk_summaries, combined_summary, calls>>
          /\ IF entry = "api" /\ stage # "chunk"
             THEN LET summary == Summary(request.id, request.user, res,
                                         max_length, min_length)
                  IN /\ summaries' = summaries \cup {summary}
                     /\ response' = {summary}
             ELSE UNCHANGED <<summaries, response>>
    /\ UNCHANGED <<users, documents, files, request>>
    /\ model' = TRUE /\ tokenizer' = TRUE
    /\ loads' = IF NeedsLoad(model, tokenizer) THEN loads + 1 ELSE loads
    /\ UNCHANGED <<requestVars, word_count, max_chunk_size, error, now>>

\* an exception handler that answers with the summaries made so far
RaisePartial(exc) ==
    /\ pc' = "done"
    /\ error' = {}
    /\ inflight' = <<>>
    /\ result' = {SummaryDict(text, Combine(chunk_summaries))}
    /\ http_status' = IF entry = "api" THEN 201 ELSE 0
    /\ UNCHANGED <<requestVars, localVars, stage, calls, returns, dbVars, httpVars,
                   now>>

\* the exception leaves summarize_long_text; the router answers 500
Raise(exc) ==
    /\ pc' = "raised"
    /\ error' = {exc}
    /\ inflight' = <<>>
    /\ http_status' = IF entry = "api" THEN 500 ELSE 0
    /\ UNCHANGED <<requestVars, localVars, stage, calls, returns, result,
                   dbVars, httpVars, now>>

\* load_model raises: from_pretrained of the tokenizer or of the model
\* fails, or moving the loaded model to the device fails
LoadFails(point) ==
    /\ pc = "generating"
    /\ NeedsLoad(model, tokenizer)
    /\ tokenizer' = (tokenizer \/ point # "tokenizer")
    /\ model' = (model \/ point = "device")
    /\ loads' = IF point = "device" THEN loads + 1 ELSE loads
    /\ Raise(HTTPException(500))

\* tokenizing, model.generate or decode raises
GenFails ==
    /\ pc = "generating"
    /\ model' = TRUE /\ tokenizer' = TRUE
    /\ loads' = IF NeedsLoad(model, tokenizer) THEN loads + 1 ELSE loads
    /\ Raise(GenerationError)

\* the caller has its answer: the frame of the request is gone, the
\* module-level cache stays
Finish ==
    /\ pc \in Resting
    /\ pc' = "idle" /\ entry' = "none"
    /\ text' = NoText /\ max_length' = 0 /\ min_length' = 0
    /\ word_count' = 0 /\ max_chunk_size' = 0
    /\ chunks' = <<>> /\ chunk_summaries' = <<>> /\ combined_summary' = NoText
    /\ stage' = "none" /\ inflight' = <<>> /\ calls' = <<>> /\ returns' = <<>>
    /\ result' = {} /\ error' = {} /\ http_status' = 0
    /\ gen' = "none"
    /\ request' = NoRequest /\ response' = {}
    /\ UNCHANGED <<cacheVars, dbVars, now>>

Next ==
    \/ \E t \in DirectTexts, lp \in LengthPairs, g \in GenBehaviours :
           summarize_long_text(t, lp[1], lp[2], g)
    \/ GenReturn
    \/ \E point \in {"tokenizer", "model", "device"} : LoadFails(point)
    \/ GenFails
    \/ Finish

Spec == Init /\ [][Next]_vars

(* ------------------------------- the API ------------------------------- *)

\* a handler that makes no generate_summary call answers the request
Answer(req, code, excs, body) ==
    /\ pc' = "answered" /\ entry' = "api"
    /\ request' = req /\ http_status' = code
    /\ error' = excs /\ response' = body
    /\ UNCHANGED <<text, max_length, min_length, gen, localVars, stage,
                   inflight, calls, returns, result, cacheVars, now>>

\* POST /auth/register: UserCreate validates the body, create_user refuses
\* an email that is registered and adds the user otherwise; the unique
\* index of users.email refuses a second row with the email
register(email, password) ==
    /\ pc = "idle"
    /\ LET req == Request("register", 0, 0, email)
           user == [id |-> NextId(users), email |-> email,
                    hashed_password |-> hash_password(password),
                    verification_token |-> create_verification_token(email),
                    is_verified |-> FALSE, is_active |-> TRUE,
                    last_login |-> NoTime]
       IN IF ~UserCreate(email, password)
            THEN /\ Answer(req, 422, {[kind |-> "RequestValidationError", status |-> 422]}, {})
                 /\ UNCHANGED dbVars
          ELSE IF get_user_by_email(email) # {}
            THEN /\ Answer(req, 400, {HTTPException(400)}, {})
                 /\ UNCHANGED dbVars
          ELSE IF \E x \in users : x.email = email
            THEN /\ Answer(req, 500, {[kind |-> "IntegrityError", status |-> 0]}, {})
                 /\ UNCHANGED dbVars
          ELSE /\ users' = users \cup {user}
               /\ Answer(req, 201, {}, {user})
               /\ UNCHANGED <<documents, summaries, files>>

\* an update that leaves the token in its column
mark_verified_keeps_token(user) == [user EXCEPT !.is_verified = TRUE]

\* verify_user_email: is_verified = True, verification_token = None
mark_verified(user) ==
    [user EXCEPT !.is_verified = TRUE, !.verification_token = NoToken]

\* GET /auth/verify-email/{token}: verify_user_email marks the user that
\* holds the token as verified and clears the token; it does not decode
\* the token
verify_email(token) ==
    /\ pc = "idle"
    /\ LET req == [op |-> "verify_email", user |-> 0, id |-> 0,
                   email |-> token.sub, token |-> token]
           found == {x \in users : x.verification_token = token}
       IN IF found = {}
            THEN /\ Answer(req, 400, {HTTPException(400)}, {})
                 /\ UNCHANGED dbVars
          ELSE LET user == CHOOSE x \in found : \A o \in found : x.id <= o.id
                   verified == mark_verified(user)
               IN IF user.is_verified
                    THEN /\ Answer(req, 400, {HTTPException(400)}, {})
                         /\ UNCHANGED dbVars
                  ELSE /\ users' = (users \ {user}) \cup {verified}
                       /\ Answer(req, 200, {}, {verified})
                       /\ UNCHANGED <<documents, summaries, files>>

\* POST /documents/upload: create_document validates the file, saves it,
\* extracts its text and adds the document. An exception of save_upload_file
\* is answered 500 with no file_path to clean up, also when the file was
\* opened already; one of the extraction or of the commit is answered 500
\* after delete_file(file_path)
upload_document(u, file, outcome, removed) ==
    /\ pc = "idle"
    /\ get_current_active_user(u)
    /\ NextId(documents) <= MaxDocuments
    /\ Cardinality(files) < MaxFiles
    /\ LET req == [op |-> "upload", user |-> u, id |-> 0, email |-> "",
                   name |-> file.name, size |-> file.size]
           invalid == validate_upload_file(file)
           document == [id |-> NextId(documents), owner_id |-> u,
                        original_filename |-> file.name,
                        file_path |-> NextPath,
                        file_type |-> replace_dot(lower(suffix(file.name))),
                        file_size |-> file.size,
                        extracted_text |-> file.content,
                        word_count |-> Len(split(file.content))]
       IN IF invalid # 0
            THEN /\ Answer(req, invalid, {HTTPException(invalid)}, {})
                 /\ UNCHANGED dbVars
          ELSE IF outcome = "save_fails"
            THEN /\ Answer(req, 500, {HTTPException(500)}, {})
                 /\ UNCHANGED dbVars
          ELSE IF outcome = "write_fails"
            THEN /\ files' = files \cup {NextPath}
                 /\ Answer(req, 500, {HTTPException(500)}, {})
                 /\ UNCHANGED <<users, documents, summaries>>
          ELSE IF outcome \in {"extract_fails", "commit_fails"}
            THEN /\ files' = IF removed THEN files ELSE files \cup {NextPath}
                 /\ Answer(req, 500, {HTTPException(500)}, {})
                 /\ UNCHANGED <<users, documents, summaries>>
          ELSE /\ documents' = documents \cup {document}
               /\ files' = files \cup {document.file_path}
               /\ Answer(req, 201, {}, {document})
               /\ UNCHANGED <<users, summaries>>

\* GET /documents/{document_id}
get_document(u, d) ==
    /\ pc = "idle"
    /\ get_current_active_user(u)
    /\ LET req == Request("get_document", u, d, "")
           denied == get_document_by_id(d, u)
       IN IF denied # 0
            THEN Answer(req, denied, {HTTPException(denied)}, {})
          ELSE Answer(req, 200, {}, {x \in documents : x.id = d})
    /\ UNCHANGED dbVars

\* DELETE /documents/{document_id}: delete_document calls delete_file,
\* whatever it returns deletes the row, and with the row the summaries of
\* the document
delete_document(u, d, removed) ==
    /\ pc = "idle"
    /\ get_current_active_user(u)
    /\ LET req == Request("delete_document", u, d, "")
           denied == get_document_by_id(d, u)
       IN IF denied # 0
            THEN /\ Answer(req, denied, {HTTPException(denied)}, {})
                 /\ UNCHANGED dbVars
          ELSE /\ files' = delete_file((CHOOSE x \in documents : x.id = d).file_path,
                                      removed)
               /\ documents' = {x \in documents : x.id # d}
               /\ summaries' = {x \in summaries : x.document_id # d}
               /\ Answer(req, 204, {}, {})
               /\ UNCHANGED users

\* GET /summaries/{summary_id}
get_summary(u, i) ==
    /\ pc = "idle"
    /\ get_current_active_user(u)
    /\ LET req == Request("get_summary", u, i, "")
           denied == summary_by_id(i, u)
       IN IF denied # 0
            THEN Answer(req, denied, {HTTPException(denied)}, {})
          ELSE Answer(req, 200, {}, {x \in summaries : x.id = i})
    /\ UNCHANGED dbVars

\* DELETE /summaries/{summary_id}
delete_summary(u, i) ==
    /\ pc = "idle"
    /\ get_current_active_user(u)
    /\ LET req == Request("delete_summary", u, i, "")
           denied == summary_by_id(i, u)
       IN IF denied # 0
            THEN /\ Answer(req, denied, {HTTPException(denied)}, {})
                 /\ UNCHANGED dbVars
          ELSE /\ summaries' = {x \in summaries : x.id # i}
               /\ Answer(req, 204, {}, {})
               /\ UNCHANGED <<users, documents, files>>

\* POST /auth/login: authenticate_user checks the email, the password and
\* is_active and stamps last_login; the router answers with an access token
login(email, password) ==
    /\ pc = "idle"
    /\ LET req == [op |-> "login", user |-> 0, id |-> 0, email |-> email,
                   password |-> password]
           excs == authenticate_user(email, password)
       IN IF excs # {}
            THEN /\ Answer(req, (CHOOSE e \in excs : TRUE).status, excs, {})
                 /\ UNCHANGED dbVars
          ELSE LET user == CHOOSE x \in get_user_by_email(email) : TRUE
                   access_token == [sub |-> user.id, email |-> user.email,
                                    exp |-> now + ACCESS_TOKEN_EXPIRE_MINUTES]
               IN /\ users' = (users \ {user}) \cup {[user EXCEPT !.last_login = now]}
                  /\ Answer(req, 200, {},
                            {[access_token |-> access_token, token_type |-> "bearer"]})
                  /\ UNCHANGED <<documents, summaries, files>>

\* the column is_active of a user is cleared in the database; no route of
\* the API does it
deactivate(u) ==
    /\ pc = "idle"
    /\ \E x \in users :
          /\ x.id = u /\ x.is_active
          /\ users' = (users \ {x}) \cup {[x EXCEPT !.is_active = FALSE]}
    /\ UNCHANGED <<pc, requestVars, localVars, stage, inflight, calls, returns,
                   result, error, http_status, cacheVars, documents, summaries,
                   files, httpVars, now>>

\* a day passes
Tick ==
    /\ pc = "idle"
    /\ now < MaxDays * VerificationTokenExpireMinutes
    /\ now' = now + VerificationTokenExpireMinutes
    /\ UNCHANGED <<pc, requestVars, localVars, stage, inflight, calls, returns,
                   result, error, http_status, cacheVars, dbVars, httpVars>>

\* the tokens a client sends to verify-email
VerificationTokens ==
    {[sub |-> e, type |-> "email_verification",
      exp |-> d * VerificationTokenExpireMinutes] : e \in Emails, d \in 1..(MaxDays + 1)}
       \cup {[sub |-> "a@example.com", type |-> "forged", exp |-> 0]}

NextApp ==
    \/ \E e \in Emails, p \in Passwords : register(e, p)
    \/ \E t \in VerificationTokens : verify_email(t)
    \/ \E u \in UserIds, f \in UploadFiles, outcome \in UploadOutcomes,
          removed \in BOOLEAN :
           upload_document(u, f, outcome, removed)
    \/ \E u \in UserIds, d \in DocumentIds : get_document(u, d)
    \/ \E u \in UserIds, d \in DocumentIds, removed \in BOOLEAN :
           delete_document(u, d, removed)
    \/ \E u \in UserIds, d \in DocumentIds, lp \in ApiLengthPairs,
          g \in GenBehaviours :
           create_summary(u, d, lp[1], lp[2], g)
    \/ \E u \in UserIds, i \in SummaryIds : get_summary(u, i)
    \/ \E u \in UserIds, i \in SummaryIds : delete_summary(u, i)
    \/ GenReturn
    \/ \E point \in {"tokenizer", "model", "device"} : LoadFails(point)
    \/ GenFails
    \/ Finish

SpecApp == Init /\ [][NextApp]_vars

\* the routes of the authentication router, as days pass
NextAuth ==
    \/ \E e \in Emails, p \in LoginPasswords : register(e, p)
    \/ \E t \in VerificationTokens : verify_email(t)
    \/ \E e \in Emails, p \in LoginPasswords : login(e, p)
    \/ \E u \in UserIds : deactivate(u)
    \/ Tick
    \/ Finish

SpecAuth == Init /\ [][NextAuth]_vars

(* ------------------------- chunk_text on its own ----------------------- *)

RECURSIVE TextsOfLen(_)
TextsOfLen(n) ==
    IF n = 0 THEN {<<>>}
    ELSE {Append(t, c) : t \in TextsOfLen(n - 1), c \in {10, 32, 97, 98}}

SmallTexts == UNION {TextsOfLen(n) : n \in 0..MaxTextLen}

InitChunk ==
    /\ pc = "idle" /\ entry = "none"
    /\ text \in SmallTexts /\ max_length = 0 /\ min_length = 0
    /\ word_count = 0 /\ max_chunk_size = 0
    /\ chunks = <<>> /\ chunk_summaries = <<>> /\ combined_summary = NoText
    /\ stage = "none" /\ inflight = <<>> /\ calls = <<>> /\ returns = <<>>
    /\ result = {} /\ error = {} /\ http_status = 0
    /\ gen = "none" /\ model = FALSE /\ tokenizer = FALSE /\ loads = 0
    /\ users = {} /\ documents = {} /\ summaries = {} /\ files = {}
    /\ request = NoRequest /\ response = {}
    /\ now = 0

\* a caller invokes chunk_text(text, n)
ChunkText(n) ==
    /\ pc = "idle"
    /\ pc' = "chunked"
    /\ max_chunk_size' = n
    /\ chunks' = chunk_text(text, n)
    /\ UNCHANGED <<requestVars, word_count, chunk_summaries, combined_summary,
                   stage, inflight, calls, returns, result, error, http_status,
                   cacheVars, dbVars, httpVars, now>>

NextChunk == \E n \in 1..MaxChunkSize : ChunkText(n)

SpecChunk == InitChunk /\ [][NextChunk]_vars

(* ------------------------------- claims -------------------------------- *)

CeilDiv(a, b) == IF a % b = 0 THEN a \div b ELSE a \div b + 1

RECURSIVE WordsOfChunks(_)
\* the words of the chunks, chunk after chunk
WordsOfChunks(cs) ==
    IF cs = <<>> THEN <<>> ELSE split(Head(cs)) \o WordsOfChunks(Tail(cs))

\* C1: a request whose text has more than 1000 words and that returns has
\* made exactly ceil(word_count / 800) + 1 generate_summary calls, and at no
\* moment more than that; 1601 words give chunks of 800, 800 and 1 words and
\* 4 calls
C1_LongPathCallCount ==
    /\ (pc \in {"generating", "done", "raised"} /\ word_count > DirectLimit)
          => Len(calls) <= CeilDiv(word_count, ChunkSize) + 1
    /\ (pc = "done" /\ word_count > DirectLimit)
          => /\ word_count = Len(split(text))
             /\ Len(calls) = CeilDiv(word_count, ChunkSize) + 1
             /\ word_count = 2 * ChunkSize + 1
                   => /\ Len(calls) = 4
                      /\ [k \in 1..3 |-> Len(split(calls[k].text))]
                            = <<ChunkSize, ChunkSize, 1>>

C1_Witness ==
    /\ pc = "done" /\ Len(calls) = 4
    /\ Len(split(text)) = 2 * ChunkSize + 1

\* C2: a request whose text has at most 1000 words makes one
\* generate_summary call, with the whole text and the caller's max_length and
\* min_length, never chunks, and returns what that call returned
C2_DirectPath ==
    (pc \in {"generating", "done", "raised"} /\ Len(split(text)) <= DirectLimit)
       => /\ calls = <<Call(text, max_length, min_length)>>
          /\ chunks = <<>> /\ max_chunk_size = 0 /\ chunk_summaries = <<>>
          /\ pc = "done" => (Len(returns) = 1 /\ result = {returns[1]})

C2_Witness ==
    /\ pc = "done" /\ Len(split(text)) = DirectLimit
    /\ Len(calls) = 1 /\ result # {}

\* C3: the words of the chunks chunk_text returns, taken chunk after chunk,
\* are the words of the text, whatever the positive chunk size
C3_ChunkingLossless ==
    pc = "chunked" => WordsOfChunks(chunks) = split(text)

C3_Witness ==
    /\ pc = "chunked" /\ max_chunk_size = 2
    /\ Len(split(text)) = 3 /\ Len(chunks) = 2
    /\ text # join(<<32>>, chunks)

\* C4: on the long path the k-th chunk handed to generate_summary holds the
\* words (k-1)*800+1 .. min(k*800, word_count) of the text: at most 800 of
\* them, at least one, no word of another chunk, and exactly 800 unless it is
\* the last chunk
C4_ChunkBounds ==
    (pc = "generating" /\ stage = "chunk")
       => LET k == Len(calls)
              w == split(calls[k].text)
              all == split(text)
          IN /\ w = SubSeq(all, (k - 1) * ChunkSize + 1, Min(k * ChunkSize, Len(all)))
             /\ Len(w) >= 1 /\ Len(w) <= ChunkSize
             /\ Len(w) = ChunkSize \/ (k - 1) * ChunkSize + Len(w) = Len(all)

C4_Witness ==
    /\ pc = "generating" /\ stage = "chunk"
    /\ Len(calls) = 3 /\ word_count = 2 * ChunkSize + 1
    /\ Len(split(calls[3].text)) = 1

RECURSIVE SpacedConcat(_)
\* the texts of a list one after the other, one space between neighbours
SpacedConcat(ts) ==
    IF ts = <<>> THEN <<>>
    ELSE IF Len(ts) = 1 THEN ts[1]
    ELSE ts[1] \o <<32>> \o SpacedConcat(Tail(ts))

\* C5: whatever lengths the caller passed, the k-th generate_summary call of
\* the long path is (chunk k, max_length=200, min_length=80), and the
\* summaries collected are the summary texts those calls returned, one per
\* chunk and in chunk order
C5_ChunkCalls ==
    stage \in {"chunk", "final"}
       => /\ \A k \in 1..Min(Len(calls), Len(chunks)) :
                calls[k] = [text |-> chunks[k], max_length |-> 200, min_length |-> 80]
          /\ Len(chunk_summaries) = Min(Len(returns), Len(chunks))
          /\ \A k \in 1..Len(chunk_summaries) :
                chunk_summaries[k] = returns[k].summary_text
          /\ stage = "final" => Len(chunk_summaries) = Len(chunks)

C5_Witness ==
    /\ stage = "final" /\ pc = "done"
    /\ max_length # ChunkMaxLength /\ min_length # ChunkMinLength
    /\ Len(chunk_summaries) = 3

\* C6: the call after the last chunk call gets the chunk summaries joined in
\* chunk order with single spaces, and the caller's max_length and
\* min_length; what it returns is what summarize_long_text returns
C6_FinalReduction ==
    stage = "final"
       => LET n == Len(chunks)
          IN /\ Len(calls) = n + 1
             /\ calls[n + 1] =
                   [text |-> SpacedConcat([k \in 1..n |-> returns[k].summary_text]),
                    max_length |-> max_length, min_length |-> min_length]
             /\ pc = "done" => (Len(returns) = n + 1 /\ result = {returns[n + 1]})

C6_Witness ==
    /\ stage = "final" /\ pc = "done"
    /\ Len(chunks) = 3 /\ gen = "padded"
    /\ <<max_length, min_length>> # <<ChunkMaxLength, ChunkMinLength>>

\* the generate_summary calls a running request has still to get an answer
\* from: one on the direct path, one per chunk and one more on the long path
CallsLeft ==
    IF pc # "generating" THEN 0
    ELSE IF word_count <= DirectLimit THEN 1 - Len(returns)
    ELSE CeilDiv(word_count, ChunkSize) + 1 - Len(returns)

\* C7: every answer of generate_summary brings a running request nearer to
\* its end, so it ends after finitely many answers; once the chunk summaries
\* are combined there is no further chunking and no call but the one
\* reduction call on the whole combination, however long the combination is
C7_SingleReduction ==
    /\ [][pc = "generating" => (CallsLeft > 0 /\ CallsLeft' < CallsLeft)]_vars
    /\ [][(stage = "final" /\ pc' # "idle")
             => (chunks' = chunks /\ calls' = calls /\ stage' = "final"
                 /\ combined_summary' = combined_summary)]_vars
    /\ [][(stage = "chunk" /\ stage' = "final")
             => calls' = Append(calls, [text |-> combined_summary',
                                        max_length |-> max_length,
                                        min_length |-> min_length])]_vars

C7_Witness ==
    /\ pc = "done" /\ stage = "final"
    /\ Len(split(combined_summary)) > DirectLimit
    /\ Len(calls) = Len(chunks) + 1

\* C8: a request whose text is empty or only whitespace is rejected and no
\* generate_summary call is made for it
C8_EmptyInputRejected ==
    (entry # "none" /\ text # NoText /\ split(text) = <<>>)
       => (pc = "rejected" /\ calls = <<>>)

\* C9: a request with min_length >= max_length is rejected and no
\* generate_summary call is made for it
C9_InvalidLengthBoundsRejected ==
    (entry # "none" /\ min_length >= max_length)
       => (pc = "rejected" /\ calls = <<>>)

\* C10: when a generate_summary call raises, the request ends with that
\* exception: the call is not made again, no later call is made, and nothing
\* is returned
C10_FailurePropagates ==
    [][/\ (pc = "generating" /\ pc' # "generating" /\ returns' = returns)
            => /\ pc' = "raised" /\ error' # {} /\ result' = {}
               /\ calls' = calls /\ inflight' = <<>>
       /\ pc = "raised"
            => /\ pc' = "idle" /\ calls' = <<>> /\ result' = {}]_vars

C10_Witness ==
    /\ pc = "raised" /\ stage = "chunk"
    /\ Len(calls) = 2 /\ Len(chunks) = 3 /\ Len(chunk_summaries) = 1
    /\ result = {}

\* C11 as claimed: a request of the long path that ends with a failure of
\* generate_summary ends with an exception of the kind GenerationFailure
\* that carries the index of the chunk whose call failed, or
\* "final-reduction" when the call on the combination failed
C11_GenerationFailureTagged ==
    (pc = "raised" /\ stage \in {"chunk", "final"})
       => \A e \in error :
             /\ e.kind = "GenerationFailure"
             /\ e.origin = FailedCall

\* C11 as amended: the request ends with the exception the failing call
\* raised, the HTTPException with status 500 of load_model or the exception
\* of the generator, the same whichever call failed: it carries no chunk
\* index and no mark of the final reduction; nothing is returned
C11_FailureUntagged ==
    pc = "raised"
       => /\ error \in {{[kind |-> "HTTPException", status |-> 500]},
                         {[kind |-> "Exception", status |-> 0]}}
          /\ result = {}

C11_Witness ==
    /\ pc = "raised" /\ stage = "final"
    /\ Len(calls) = Len(chunks) + 1 /\ Len(chunks) = 2
    /\ error = {[kind |-> "Exception", status |-> 0]}

\* C12: on the direct and on the long path the dictionary a request returns
\* has as original_length the word count of the text the caller passed, and
\* as compression_ratio its summary_length divided by that word count
C12_InputWordCount ==
    pc = "done"
       => \A r \in result :
             /\ r.original_length = Len(split(text))
             /\ r.compression_ratio
                   = CompressionRatio(r.summary_length, Len(split(text)))

\* C13: every dictionary generate_summary returns has a compression_ratio
\* that is a number and not negative, and 0 when the text of the call has no
\* word, as a text of whitespace or an empty combination of chunk summaries
C13_RatioDefined ==
    /\ \A k \in 1..Len(returns) :
          /\ returns[k].compression_ratio # ZeroDivision
          /\ returns[k].compression_ratio >= 0
          /\ split(calls[k].text) = <<>> => returns[k].compression_ratio = 0
    /\ \A r \in result : r.compression_ratio >= 0

C13_Witness ==
    /\ pc = "done" /\ stage = "final"
    /\ combined_summary # <<>> /\ split(combined_summary) = <<>>
    /\ \E r \in result : r.original_length = 0 /\ r.compression_ratio = 0

\* C14: at most one generate_summary call of a request is in progress; a
\* call is started only in the step in which the call before it returns;
\* the chunk calls go in the order of the chunks and the call on the
\* combination starts when the call of the last chunk has returned
C14_OneCallAtATime ==
    [][/\ Len(inflight') <= 1
       /\ pc' = "generating"
             => /\ Len(calls') = Len(returns') + 1
                /\ inflight' = <<calls'[Len(calls')]>>
       /\ (pc = "generating" /\ calls' # calls /\ pc' # "idle")
             => /\ Len(calls') = Len(calls) + 1
                /\ Len(returns') = Len(calls)
                /\ SubSeq(calls', 1, Len(calls)) = calls
       /\ (pc' = "generating" /\ stage' = "chunk")
             => calls'[Len(calls')].text = chunks'[Len(calls')]
       /\ (pc' = "generating" /\ stage' = "final")
             => /\ Len(calls') = Len(chunks') + 1
                /\ Len(returns') = Len(chunks')]_vars

C14_Witness ==
    /\ pc = "generating" /\ stage = "final"
    /\ Len(inflight) = 1 /\ Len(returns) = 3 /\ Len(calls) = 4

\* C15: the tokenizer and the model are loaded at most once; the cache holds
\* both exactly when they have been loaded; once it holds both, no step
\* clears it or loads again
C15_LoadOnce ==
    [][/\ loads' <= 1
       /\ (model' /\ tokenizer') <=> loads' = 1
       /\ (model /\ tokenizer)
             => (model' /\ tokenizer' /\ loads' = loads)]_vars

\* a request whose first call has not returned finds the cache filled by a
\* request before it
C15_Witness ==
    /\ pc = "generating" /\ returns = <<>>
    /\ model /\ tokenizer /\ loads = 1

\* C16: a get or a delete of a document or of a summary that names no row
\* is answered 404; one by a user who is not the owner of the row is
\* answered 403, returns nothing and leaves the tables and the files as they
\* are; a row is returned or deleted only for its owner
C16_OwnerOnly ==
    [][/\ (pc' = "answered" /\ request'.op \in {"get_document", "delete_document"})
             => LET found == {x \in documents : x.id = request'.id}
                IN /\ found = {}
                         => /\ http_status' = 404
                            /\ error' = {[kind |-> "HTTPException", status |-> 404]}
                            /\ response' = {}
                            /\ UNCHANGED dbVars
                   /\ \A x \in found :
                         x.owner_id # request'.user
                            => /\ http_status' = 403
                               /\ error' = {[kind |-> "HTTPException", status |-> 403]}
                               /\ response' = {}
                               /\ UNCHANGED dbVars
                   /\ \A x \in response' : x.owner_id = request'.user
                   /\ \A x \in documents \ documents' : x.owner_id = request'.user
       /\ (pc' = "answered" /\ request'.op \in {"get_summary", "delete_summary"})
             => LET found == {x \in summaries : x.id = request'.id}
                IN /\ found = {}
                         => /\ http_status' = 404
                            /\ error' = {[kind |-> "HTTPException", status |-> 404]}
                            /\ response' = {}
                            /\ UNCHANGED dbVars
                   /\ \A x \in found :
                         x.owner_id # request'.user
                            => /\ http_status' = 403
                               /\ error' = {[kind |-> "HTTPException", status |-> 403]}
                               /\ response' = {}
                               /\ UNCHANGED dbVars
                   /\ \A x \in response' : x.owner_id = request'.user
                   /\ \A x \in summaries \ summaries' : x.owner_id = request'.user]_vars

C16_Witness ==
    /\ pc = "answered" /\ request.op = "delete_summary" /\ http_status = 403
    /\ \E x \in summaries : x.id = request.id /\ x.owner_id # request.user
    /\ \E d \in documents : d.owner_id # request.user

\* C17: for a body that SummaryCreate admits, create_summary raises 404 when
\* no document has the id, else 403 when the caller is not its owner, else
\* 400 when it has no extracted text, each without a generate_summary call;
\* the first call is made only for an own document that has text
C17_CheckOrder ==
    [][(pc = "idle" /\ request'.op = "generate"
           /\ max_length' >= MaxLengthGe /\ max_length' <= MaxLengthLe
           /\ min_length' >= MinLengthGe /\ min_length' <= MinLengthLe)
          => LET found == {x \in documents : x.id = request'.id}
                 raised(code) ==
                     /\ pc' = "rejected" /\ calls' = <<>>
                     /\ error' = {[kind |-> "HTTPException", status |-> code]}
                     /\ UNCHANGED dbVars
             IN /\ found = {} => raised(404)
                /\ \A x \in found :
                      /\ x.owner_id # request'.user => raised(403)
                      /\ (x.owner_id = request'.user
                             /\ x.extracted_text \in {NoText, <<>>}) => raised(400)
                      /\ (x.owner_id = request'.user
                             /\ x.extracted_text \notin {NoText, <<>>})
                            => /\ pc' = "generating"
                               /\ calls' = <<[text |-> x.extracted_text,
                                              max_length |-> max_length',
                                              min_length |-> min_length']>>]_vars

\* the document of another user that has no text: 403, not 400
C17_Witness ==
    /\ pc = "rejected" /\ request.op = "generate" /\ calls = <<>>
    /\ error = {[kind |-> "HTTPException", status |-> 403]}
    /\ \E x \in documents :
          /\ x.id = request.id /\ x.owner_id # request.user
          /\ x.extracted_text = <<>>

\* C18: a request to upload a document or to generate a summary by a user
\* whose is_verified is false is refused: no document is added and no
\* generate_summary call is made for it
C18_VerifiedRequired ==
    (\E x \in users : x.id = request.user /\ ~x.is_verified)
       => /\ request.op = "upload" => http_status # 201
          /\ request.op = "generate" => pc \notin {"generating", "done", "raised"}

\* C19: a generate request with max_length=100 and min_length=30 for an own
\* document that has extracted text is accepted, and when its summary is
\* made the answer is 201 with the summary that is stored
C19_GenerateAccepted ==
    (/\ request.op = "generate" /\ max_length = 100 /\ min_length = 30
     /\ \E x \in documents :
           /\ x.id = request.id /\ x.owner_id = request.user
           /\ x.extracted_text \notin {NoText, <<>>})
       => /\ pc \in {"generating", "done", "raised"}
          /\ pc = "done"
                => (http_status = 201 /\ response # {} /\ response \subseteq summaries)

\* C20: no two users have the same email; a registration with a valid body
\* and the email of a user is answered 400 and leaves the users as they
\* are; every other one with a valid body is answered 201 and adds one
\* user, with a new id, not verified, active and with a verification token,
\* and changes no other user
C20_EmailsUnique ==
    [][/\ \A x, y \in users' : x.email = y.email => x = y
       /\ (pc = "idle" /\ request'.op = "register" /\ http_status' # 422)
             => IF \E x \in users : x.email = request'.email
                THEN /\ http_status' = 400
                     /\ error' = {[kind |-> "HTTPException", status |-> 400]}
                     /\ response' = {}
                     /\ UNCHANGED dbVars
                ELSE /\ http_status' = 201
                     /\ users \subseteq users'
                     /\ Cardinality(users') = Cardinality(users) + 1
                     /\ response' = users' \ users
                     /\ \A n \in users' \ users :
                           /\ n.email = request'.email
                           /\ ~n.is_verified /\ n.is_active
                           /\ n.verification_token # NoToken
                           /\ n.verification_token.sub = n.email
                           /\ \A x \in users : x.id # n.id
                     /\ UNCHANGED <<documents, summaries, files>>]_vars

\* the email of a verified user is registered again
C20_Witness ==
    /\ pc = "answered" /\ request.op = "register" /\ http_status = 400
    /\ Cardinality(users) = 2
    /\ \E x \in users : x.email = request.email /\ x.is_verified

C22_Login ==
    [][(pc' = "answered" /\ request'.op = "login")
          => LET known == {x \in users : x.email = request'.email}
                 right == {x \in known : x.hashed_password =
                              [scheme |-> "bcrypt", plain |-> request'.password]}
                 active == {x \in right : x.is_active}
             IN /\ (http_status' = 200) <=> (active # {})
                /\ right = {}
                      => /\ http_status' = 401
                         /\ error' = {[kind |-> "HTTPException", status |-> 401,
                                       detail |-> "Incorrect email or password"]}
                /\ (right # {} /\ active = {})
                      => /\ http_status' = 403
                         /\ error' = {[kind |-> "HTTPException", status |-> 403,
                                       detail |-> "Account is inactive"]}
                /\ active = {} => users' = users
                /\ \A x \in active :
                      /\ users' = (users \ {x}) \cup {[x EXCEPT !.last_login = now]}
                      /\ error' = {}
                      /\ \A r \in response' : r.token_type = "bearer"
                                              /\ r.access_token.sub = x.id
                /\ UNCHANGED <<documents, summaries, files>>]_vars

\* a user logs in a day after the other user was deactivated
C22_Witness ==
    /\ pc = "answered" /\ request.op = "login" /\ http_status = 200
    /\ now > 0
    /\ \E x \in users : x.email = request.email /\ x.last_login = now
    /\ \E y \in users : ~y.is_active /\ y.last_login # NoTime

\* a login with the password of the other user
C22_WitnessWrongPassword ==
    /\ pc = "answered" /\ request.op = "login" /\ http_status = 401
    /\ \E x, y \in users :
          /\ x.email = request.email
          /\ x.hashed_password.plain # request.password
          /\ y.hashed_password.plain = request.password

\* a login of a deactivated user
C22_WitnessInactive ==
    /\ pc = "answered" /\ request.op = "login" /\ http_status = 403

\* C26: a verification with a token that has expired (it was issued more
\* than one day ago) is not answered 200 and verifies no user
C26_TokenExpires ==
    [][(pc' = "answered" /\ request'.op = "verify_email"
           /\ request'.token.exp < now)
          => /\ http_status' # 200
             /\ users' = users]_vars

\* C23: an upload whose name has no extension among pdf, docx and txt,
\* whatever its case, is answered 400; one with such an extension and more
\* than 10 MB is answered 413; both leave the upload directory and the
\* tables as they are; a file with such an extension and at most 10 MB
\* passes the validation (it is answered 201, or 500 when a later step
\* fails)
C23_ValidatedFirst ==
    [][(pc' = "answered" /\ request'.op = "upload")
          => LET ext == replace_dot(lower(suffix(request'.name)))
                 allowed == ext \in {<<112, 100, 102>>, <<100, 111, 99, 120>>,
                                     <<116, 120, 116>>}
             IN /\ ~allowed
                      => /\ http_status' = 400
                         /\ error' = {[kind |-> "HTTPException", status |-> 400]}
                         /\ response' = {}
                         /\ UNCHANGED dbVars
                /\ (allowed /\ request'.size > MaxFileSize)
                      => /\ http_status' = 413
                         /\ error' = {[kind |-> "HTTPException", status |-> 413]}
                         /\ response' = {}
                         /\ UNCHANGED dbVars
                /\ (allowed /\ request'.size <= MaxFileSize)
                      => http_status' \in {201, 500}
                /\ documents' # documents => http_status' = 201]_vars

\* a file a.TXT of exactly 10 MB is stored
C23_Witness ==
    /\ pc = "answered" /\ request.op = "upload" /\ http_status = 201
    /\ request.name = <<97, 46, 84, 88, 84>>
    /\ request.size = MaxFileSize
    /\ \E x \in documents : x.file_size = MaxFileSize /\ x.file_path \in files

\* a file of more than 10 MB is refused while the directory holds a file
C23_WitnessTooLarge ==
    /\ pc = "answered" /\ request.op = "upload" /\ http_status = 413
    /\ files # {}

\* C24: a delete of a document that is answered 204 removes the row of the
\* document and its file and leaves no summary of the document
C24_DeleteRemovesAll ==
    [][(pc' = "answered" /\ request'.op = "delete_document" /\ http_status' = 204)
          => \A x \in documents :
                x.id = request'.id
                   => /\ x \notin documents'
                      /\ x.file_path \notin files'
                      /\ \A y \in summaries' : y.document_id # x.id]_vars

\* C25: an upload that is not answered 201 leaves the upload directory and
\* the table of documents as they were; one that fails after the
\* validation is answered 500
C25_NoOrphanFile ==
    [][(pc' = "answered" /\ request'.op = "upload" /\ http_status' # 201)
          => /\ files' = files
             /\ documents' = documents
             /\ http_status' \in {400, 413, 500}]_vars

====
